---- MODULE Spec2Model ----
(***************************************************************************)
(* A model of the message bus (core/message_bus.py), of the seven agents   *)
(* that communicate through it (agents/*.py) and of run_session (main.py). *)
(*                                                                         *)
(* One loop iteration of MessageBus.run is one action: handlers run to     *)
(* completion inside the iteration that dispatched them.                   *)
(***************************************************************************)
EXTENDS Integers, Sequences, FiniteSets, TLC

\* ------------------------------------------------------------------ bounds

\* External bus.send calls made over a behaviour.
MaxSends == 3
\* Largest num_scenarios a ScenarioAgent is constructed with.
MaxK == 2
\* Largest max_steps argument passed to run (None is always offered too).
MaxSteps == 1
\* Number of run calls over a behaviour.
MaxRuns == 1

\* Iterations of one run call the model follows in Spec, where a filtered run
\* without max_steps can recycle envelopes of other sessions for ever.
MaxLoop == 6

\* register_agent calls made after build_system over a behaviour.
MaxRegs == 2

\* Python's None, where the other values are integers.
None == -1
\* Python's None, where the other values are session ids.
NoSession == "None"

Sessions == {"s1", "s2"}
\* The scores _score_scenario can give a result (abstracted to two values).
Scores == {1, 2}

AgentNames ==
    {"Orchestrator", "PolicyAgent", "DataAgent", "ScenarioAgent",
     "SimulationAgent", "EvaluationAgent", "ReportAgent"}

\* ------------------------------------------------------------- variables

VARIABLES
    agents,         \* MessageBus.agents: name -> agent (its class)
    queue,          \* MessageBus.queue
    sessions,       \* EvaluationAgent._sessions
    num_scenarios,  \* ScenarioAgent.num_scenarios
    pc,             \* "idle", "run" while a run call is in its loop,
                    \* "handler" inside a handler, "done" after run_session
    session_id,     \* run's session_id argument
    max_steps,      \* run's max_steps argument
    steps,          \* run's local steps
    runs,           \* number of run calls made so far
    emitted,        \* history: every envelope passed to send, in order
    log,            \* history: every envelope popped by run, with the outcome,
                    \* the agent the lookup gave and the scenarios
                    \* _generate_scenarios returned
    run0,           \* history: queue and Len(emitted) when the current run began
    registered,     \* history: the register_agent calls made after build_system
    status          \* the statuses saved to the session's file, in order

vars ==
    <<agents, queue, sessions, num_scenarios, pc, session_id, max_steps,
      steps, runs, emitted, log, run0, registered, status>>

\* ------------------------------------------------------------ core.models

\* AgentMessage; id stands for the identity of the object.
AgentMessage(sender, receiver, type, payload, sid) ==
    [id |-> 0, sender |-> sender, receiver |-> receiver, type |-> type,
     payload |-> payload, session_id |-> sid]

\* A payload holding every field its type asks for.
OkPayload == [ok |-> TRUE]
\* A payload with the fields missing (an empty dict).
BadPayload == [ok |-> FALSE]

\* ------------------------------------------------------ EvaluationAgent

\* The position of x when equal scores are not kept in arrival order: ahead
\* of the elements with x's score.
InsertAheadOfEqual(sorted, x) ==
    LET p == Cardinality({i \in 1..Len(sorted) : sorted[i].score > x.score})
    IN  SubSeq(sorted, 1, p) \o <<x>> \o SubSeq(sorted, p + 1, Len(sorted))

\* The position of x in a list sorted by descending score: behind every
\* element whose score is at least x's (list.sort is stable).
InsertByScore(sorted, x) ==
    LET p == Cardinality({i \in 1..Len(sorted) : sorted[i].score >= x.score})
    IN  SubSeq(sorted, 1, p) \o <<x>> \o SubSeq(sorted, p + 1, Len(sorted))

\* The results left in the order they arrived in.
ArrivalOrder(s) ==
    s

RECURSIVE SortByScore(_)
\* scored.sort(key=lambda x: x[0], reverse=True)
SortByScore(s) ==
    IF s = <<>> THEN <<>>
    ELSE InsertByScore(SortByScore(SubSeq(s, 1, Len(s) - 1)), s[Len(s)])

\* _evaluate_session raises when an entry lacks a field it reads, and on
\* scored[0] of an empty list.
EvaluateRaises(results) ==
    \/ results = <<>>
    \/ \E i \in 1..Len(results) : ~results[i].ok

\* _evaluate_session: the summary of a list of well-formed results.
_evaluate_session(results) ==
    LET scored == SortByScore(results)
    IN  [ok |-> TRUE,
         best_scenario |-> scored[1],
         ranked_scenarios |-> scored,
         num_scenarios |-> Len(scored)]

\* What a handler leaves behind: the envelopes it sent, the agent's
\* session table, and whether it raised.
Outcome(sent, sess, raised) ==
    [sent |-> sent, sessions |-> sess, raised |-> raised]

\* _handle_scenario_count setting the count of every session it holds.
_handle_scenario_count_shared(msg, sess) ==
    LET sid == msg.session_id
        all == DOMAIN sess \cup {sid}
    IN  Outcome(<<>>,
            [t \in all |->
                [expected |-> msg.payload.count,
                 results |-> IF t \in DOMAIN sess THEN sess[t].results
                             ELSE <<>>]],
            ~msg.payload.ok)

\* _handle_scenario_count testing the threshold itself, and aggregating
\* when the count it sets is reached by the results held.
_handle_scenario_count_firing(msg, sess) ==
    LET sid == msg.session_id
        results == IF sid \in DOMAIN sess THEN sess[sid].results ELSE <<>>
        s1 == [t \in DOMAIN sess \cup {sid} |->
                  IF t = sid
                  THEN [expected |-> msg.payload.count, results |-> results]
                  ELSE sess[t]]
    IN  IF Len(results) < msg.payload.count
        THEN Outcome(<<>>, s1, FALSE)
        ELSE IF results = <<>> \/ \E i \in 1..Len(results) : ~results[i].ok
        THEN Outcome(<<>>, s1, TRUE)
        ELSE Outcome(<<[id |-> 0, sender |-> "EvaluationAgent",
                        receiver |-> "ReportAgent", type |-> "EVAL_SUMMARY",
                        payload |-> [ok |-> TRUE,
                                     best_scenario |-> results[1],
                                     ranked_scenarios |-> results,
                                     num_scenarios |-> Len(results)],
                        session_id |-> sid]>>,
                     [t \in DOMAIN sess \ {sid} |-> sess[t]],
                     FALSE)

\* _handle_scenario_count starting the session's record afresh.
_handle_scenario_count_reset(msg, sess) ==
    Outcome(<<>>,
        [t \in DOMAIN sess \cup {msg.session_id} |->
            IF t = msg.session_id
            THEN [expected |-> msg.payload.count, results |-> <<>>]
            ELSE sess[t]],
        ~msg.payload.ok)

\* _handle_scenario_count
_handle_scenario_count(msg, sess) ==
    LET sid == msg.session_id
    IN  IF ~msg.payload.ok
        THEN Outcome(<<>>, sess, TRUE)
        ELSE IF sid \notin DOMAIN sess
        THEN Outcome(<<>>,
                 [t \in DOMAIN sess \cup {sid} |->
                     IF t = sid
                     THEN [expected |-> msg.payload.count, results |-> <<>>]
                     ELSE sess[t]],
                 FALSE)
        ELSE Outcome(<<>>,
                 [sess EXCEPT ![sid].expected = msg.payload.count],
                 FALSE)

\* The threshold test with > for >=.
BarrierReachedStrict(expected, results) ==
    expected # None /\ Len(results) > expected

\* The threshold test passing one result short of the count.
BarrierReachedEarly(expected, results) ==
    expected # None /\ Len(results) >= expected - 1

\* The threshold test of _handle_sim_result (line 63).
BarrierReached(expected, results) ==
    expected # None /\ Len(results) >= expected

\* The session's record kept after the summary was sent.
del_session_forgotten(sess, sid) ==
    sess

\* The session's results cleared and its record kept for the next count.
del_session_results(sess, sid) ==
    [sess EXCEPT ![sid] = [expected |-> None, results |-> <<>>]]

\* del self._sessions[session_id] (line 75)
del_session(sess, sid) ==
    [t \in DOMAIN sess \ {sid} |-> sess[t]]

\* _handle_sim_result leaving the session table as it found it when the
\* aggregation raises.
_handle_sim_result_undone(msg, sess) ==
    LET sid == msg.session_id
        held == IF sid \in DOMAIN sess THEN sess[sid].results ELSE <<>>
        expected == IF sid \in DOMAIN sess THEN sess[sid].expected ELSE None
        results == Append(held, msg.payload)
        s2 == [t \in DOMAIN sess \cup {sid} |->
                  IF t = sid
                  THEN [expected |-> expected, results |-> results]
                  ELSE sess[t]]
    IN  IF BarrierReached(expected, results)
        THEN IF EvaluateRaises(results)
             THEN Outcome(<<>>, sess, TRUE)
             ELSE Outcome(
                      <<AgentMessage("EvaluationAgent", "ReportAgent",
                            "EVAL_SUMMARY", _evaluate_session(results), sid)>>,
                      del_session(s2, sid),
                      FALSE)
        ELSE Outcome(<<>>, s2, FALSE)

\* _handle_sim_result
_handle_sim_result(msg, sess) ==
    LET sid == msg.session_id
        s1 == IF sid \notin DOMAIN sess
              THEN [t \in DOMAIN sess \cup {sid} |->
                       IF t = sid
                       THEN [expected |-> None, results |-> <<>>]
                       ELSE sess[t]]
              ELSE sess
        s2 == [s1 EXCEPT ![sid].results = Append(@, msg.payload)]
        expected == s2[sid].expected
        results == s2[sid].results
    IN  IF BarrierReached(expected, results)
        THEN IF EvaluateRaises(results)
             THEN Outcome(<<>>, s2, TRUE)
             ELSE Outcome(
                      <<AgentMessage("EvaluationAgent", "ReportAgent",
                            "EVAL_SUMMARY", _evaluate_session(results), sid)>>,
                      del_session(s2, sid),
                      FALSE)
        ELSE Outcome(<<>>, s2, FALSE)

\* EvaluationAgent taking every envelope that is not a count for a result.
EvaluationAgent_takes_all(msg, sess) ==
    IF msg.type = "SCENARIO_COUNT" THEN _handle_scenario_count(msg, sess)
    ELSE _handle_sim_result(msg, sess)

\* EvaluationAgent.handle_message
EvaluationAgent_handle_message(msg, sess) ==
    IF msg.type = "SCENARIO_COUNT" THEN _handle_scenario_count(msg, sess)
    ELSE IF msg.type = "SIM_RESULT" THEN _handle_sim_result(msg, sess)
    ELSE Outcome(<<>>, sess, FALSE)

\* ---------------------------------------------------- the other agents

\* Orchestrator.handle_message: START reads payload["goal_text"],
\* REPORT_READY reads payload["report"].
Orchestrator_handle_message(msg, sess) ==
    IF msg.type = "START"
    THEN IF ~msg.payload.ok
         THEN Outcome(<<>>, sess, TRUE)
         ELSE Outcome(<<AgentMessage("Orchestrator", "PolicyAgent", "GOAL",
                           OkPayload, msg.session_id)>>, sess, FALSE)
    ELSE IF msg.type = "REPORT_READY"
    THEN Outcome(<<>>, sess, ~msg.payload.ok)
    ELSE Outcome(<<>>, sess, FALSE)

\* PolicyAgent.handle_message: the payload is read with defaults, so a
\* payload without its fields is handled like any other.
PolicyAgent_handle_message(msg, sess) ==
    IF msg.type # "GOAL"
    THEN Outcome(<<>>, sess, FALSE)
    ELSE Outcome(<<AgentMessage("PolicyAgent", "DataAgent", "POLICY",
                      OkPayload, msg.session_id)>>, sess, FALSE)

\* DataAgent.handle_message; fails: load_region raises.
DataAgent_handle_message(msg, sess, fails) ==
    IF msg.type # "POLICY"
    THEN Outcome(<<>>, sess, FALSE)
    ELSE IF ~msg.payload.ok \/ fails
    THEN Outcome(<<>>, sess, TRUE)
    ELSE Outcome(<<AgentMessage("DataAgent", "ScenarioAgent",
                      "REGION_CONTEXT", OkPayload, msg.session_id)>>,
                 sess, FALSE)

\* The SCENARIO envelopes of ScenarioAgent.handle_message's loop.
ScenarioMessages(scenarios, sid) ==
    [i \in 1..Len(scenarios) |->
        AgentMessage("ScenarioAgent", "SimulationAgent", "SCENARIO",
            [ok |-> TRUE, scenario_id |-> i, score |-> scenarios[i]], sid)]

\* ScenarioAgent announcing a count of zero when nothing was generated.
ScenarioAgent_counts_zero(msg, sess, scenarios, fails) ==
    IF msg.type # "REGION_CONTEXT"
    THEN Outcome(<<>>, sess, FALSE)
    ELSE IF ~msg.payload.ok \/ fails
    THEN Outcome(<<>>, sess, TRUE)
    ELSE Outcome(
             <<AgentMessage("ScenarioAgent", "EvaluationAgent",
                   "SCENARIO_COUNT",
                   [ok |-> TRUE, count |-> Len(scenarios)], msg.session_id)>>
             \o ScenarioMessages(scenarios, msg.session_id),
             sess, FALSE)

\* ScenarioAgent sending the count behind the scenarios.
ScenarioAgent_counts_last(msg, sess, scenarios, fails) ==
    IF msg.type # "REGION_CONTEXT"
    THEN Outcome(<<>>, sess, FALSE)
    ELSE IF ~msg.payload.ok \/ fails
    THEN Outcome(<<>>, sess, TRUE)
    ELSE IF scenarios = <<>>
    THEN Outcome(<<>>, sess, FALSE)
    ELSE Outcome(
             ScenarioMessages(scenarios, msg.session_id)
             \o <<AgentMessage("ScenarioAgent", "EvaluationAgent",
                      "SCENARIO_COUNT",
                      [ok |-> TRUE, count |-> Len(scenarios)], msg.session_id)>>,
             sess, FALSE)

\* ScenarioAgent.handle_message; scenarios: what _generate_scenarios
\* returned; fails: load_interventions raises.
ScenarioAgent_handle_message(msg, sess, scenarios, fails) ==
    IF msg.type # "REGION_CONTEXT"
    THEN Outcome(<<>>, sess, FALSE)
    ELSE IF ~msg.payload.ok \/ fails
    THEN Outcome(<<>>, sess, TRUE)
    ELSE IF scenarios = <<>>
    THEN Outcome(<<>>, sess, FALSE)
    ELSE Outcome(
             <<AgentMessage("ScenarioAgent", "EvaluationAgent",
                   "SCENARIO_COUNT",
                   [ok |-> TRUE, count |-> Len(scenarios)], msg.session_id)>>
             \o ScenarioMessages(scenarios, msg.session_id),
             sess, FALSE)

\* SimulationAgent sending its result without the session of the scenario.
SimulationAgent_drops_session(msg, sess, fails) ==
    IF msg.type # "SCENARIO"
    THEN Outcome(<<>>, sess, FALSE)
    ELSE IF ~msg.payload.ok \/ fails
    THEN Outcome(<<>>, sess, TRUE)
    ELSE Outcome(<<AgentMessage("SimulationAgent", "EvaluationAgent",
                      "SIM_RESULT", msg.payload, NoSession)>>,
                 sess, FALSE)

\* SimulationAgent.handle_message; fails: simulate_scenario raises.
SimulationAgent_handle_message(msg, sess, fails) ==
    IF msg.type # "SCENARIO"
    THEN Outcome(<<>>, sess, FALSE)
    ELSE IF ~msg.payload.ok \/ fails
    THEN Outcome(<<>>, sess, TRUE)
    ELSE Outcome(<<AgentMessage("SimulationAgent", "EvaluationAgent",
                      "SIM_RESULT", msg.payload, msg.session_id)>>,
                 sess, FALSE)

\* ReportAgent saving the report without telling the Orchestrator.
ReportAgent_saves_only(msg, sess, fails) ==
    Outcome(<<>>, sess, msg.type = "EVAL_SUMMARY" /\ (~msg.payload.ok \/ fails))

\* ReportAgent.handle_message; fails: save_report raises.
ReportAgent_handle_message(msg, sess, fails) ==
    IF msg.type # "EVAL_SUMMARY"
    THEN Outcome(<<>>, sess, FALSE)
    ELSE IF ~msg.payload.ok \/ fails
    THEN Outcome(<<>>, sess, TRUE)
    ELSE Outcome(<<AgentMessage("ReportAgent", "Orchestrator",
                      "REPORT_READY", msg.payload, msg.session_id)>>,
                 sess, FALSE)

\* agent.handle_message(msg, self) for the agent bound to a name; env is
\* what the handler's collaborators do during this call.
handle_message(agent, msg, sess, env) ==
    CASE agent = "Orchestrator" -> Orchestrator_handle_message(msg, sess)
      [] agent = "PolicyAgent" -> PolicyAgent_handle_message(msg, sess)
      [] agent = "DataAgent" -> DataAgent_handle_message(msg, sess, env.fails)
      [] agent = "ScenarioAgent" ->
            ScenarioAgent_handle_message(msg, sess, env.scenarios, env.fails)
      [] agent = "SimulationAgent" ->
            SimulationAgent_handle_message(msg, sess, env.fails)
      [] agent = "EvaluationAgent" -> EvaluationAgent_handle_message(msg, sess)
      [] agent = "ReportAgent" -> ReportAgent_handle_message(msg, sess, env.fails)

\* _generate_scenarios: no scenario without interventions, and otherwise
\* num_scenarios of them, each with the score its random actions give it.
GeneratedScenarios(n) ==
    {<<>>} \cup [1..n -> Scores]

\* What the collaborators of the handler of msg can do.
Environments(agent, msg, n) ==
    IF agent = "ScenarioAgent" /\ msg.type = "REGION_CONTEXT"
    THEN [fails : BOOLEAN, scenarios : GeneratedScenarios(n)]
    ELSE IF \/ agent = "DataAgent" /\ msg.type = "POLICY"
            \/ agent = "SimulationAgent" /\ msg.type = "SCENARIO"
            \/ agent = "ReportAgent" /\ msg.type = "EVAL_SUMMARY"
    THEN [fails : BOOLEAN, scenarios : {<<>>}]
    ELSE [fails : {FALSE}, scenarios : {<<>>}]

\* ------------------------------------------------------------ MessageBus

\* register_agent leaving a name that is bound as it is.
register_agent_once(registry, name, agent) ==
    IF name \in DOMAIN registry THEN registry
    ELSE [n \in DOMAIN registry \cup {name} |->
             IF n = name THEN agent ELSE registry[n]]

\* MessageBus.register_agent: self.agents[name] = agent
register_agent(registry, name, agent) ==
    [n \in DOMAIN registry \cup {name} |->
        IF n = name THEN agent ELSE registry[n]]

\* send with the envelope put at the head of the queue.
send_front(q, msg) ==
    <<msg>> \o q

\* send refusing an envelope for which no other is waiting.
send_if_busy(q, msg) ==
    IF q = <<>> THEN q ELSE Append(q, msg)

\* MessageBus.send: self.queue.append(msg)
send(q, msg) ==
    Append(q, msg)

RECURSIVE SendAll(_, _)
\* The queue after the send calls of one handler, in the order it made them.
SendAll(q, msgs) ==
    IF msgs = <<>> THEN q
    ELSE SendAll(send(q, Head(msgs)), Tail(msgs))

\* The envelopes a caller passes to send, as objects of their own: the
\* n-th envelope ever sent has identity n.
Stamp(msgs, base) ==
    [i \in 1..Len(msgs) |-> [msgs[i] EXCEPT !.id = base + i]]

\* run without the session test: every popped envelope is dispatched.
ForeignUntested(filter, msg) ==
    FALSE

\* run's test for an envelope of another session (message_bus.py line 76).
Foreign(filter, msg) ==
    filter # NoSession /\ msg.session_id # filter

\* run's loop condition together with the max_steps test.
LoopContinues(q, limit, n) ==
    q # <<>> /\ ~(limit # None /\ n >= limit)

\* The receiver resolved against the agents build_system registered.
LookupAsBuilt(registry, name) ==
    IF name \in AgentNames THEN name ELSE "None"

\* self.agents.get(receiver_name)
Lookup(registry, name) ==
    IF name \in DOMAIN registry THEN registry[name] ELSE "None"

\* What one iteration of run's loop leaves behind; raises: an exception
\* leaves run.
Step(q, sess, sent, n, outcome, raises) ==
    [queue |-> q, sessions |-> sess, sent |-> sent, steps |-> n,
     outcome |-> outcome, raises |-> raises]

\* Recycling without steps += 1.
RecycleUncounted(rest, msg, sess, n) ==
    Step(Append(rest, msg), sess, <<>>, n, "recycled", FALSE)

\* Recycling that loses the envelope.
RecycleLost(rest, msg, sess, n) ==
    Step(rest, sess, <<>>, n + 1, "recycled", FALSE)

\* Lines 76-80: the envelope of another session goes back to the tail.
Recycle(rest, msg, sess, n) ==
    Step(Append(rest, msg), sess, <<>>, n + 1, "recycled", FALSE)

\* The lookup as self.agents[receiver_name]: a KeyError leaves run.
UnknownReceiverRaises(rest, msg, sess, n) ==
    Step(rest, sess, <<>>, n, "unknown", TRUE)

\* The envelope nobody is registered for put back at the tail.
UnknownReceiverRequeued(rest, msg, sess, n) ==
    Step(Append(rest, msg), sess, <<>>, n + 1, "unknown", FALSE)

\* Lines 84-92: no agent under the receiver's name.
UnknownReceiver(rest, msg, sess, n) ==
    Step(rest, sess, <<>>, n + 1, "unknown", FALSE)

\* The handler called without try/except: its exception leaves run.
DispatchUncaught(rest, h, out, n) ==
    Step(SendAll(rest, out), h.sessions, out, n + 1,
         IF h.raised THEN "failed" ELSE "handled", h.raised)

\* The dispatch of an envelope not counted as a step.
DispatchUncounted(rest, h, out, n) ==
    Step(SendAll(rest, out), h.sessions, out, n,
         IF h.raised THEN "failed" ELSE "handled", FALSE)

\* Lines 102-113: the handler is called inside try/except Exception; h is
\* what the handler did, out the envelopes it passed to send.
Dispatch(rest, h, out, n) ==
    Step(SendAll(rest, out), h.sessions, out, n + 1,
         IF h.raised THEN "failed" ELSE "handled", FALSE)

\* One iteration of run's loop on a non-empty queue q (lines 74-113).
Iteration(q, registry, sess, filter, n, env, base) ==
    LET msg == Head(q)
        rest == Tail(q)
        agent == Lookup(registry, msg.receiver)
    IN  IF Foreign(filter, msg) THEN Recycle(rest, msg, sess, n)
        ELSE IF agent = "None" THEN UnknownReceiver(rest, msg, sess, n)
        ELSE LET h == handle_message(agent, msg, sess, env)
             IN  Dispatch(rest, h, Stamp(h.sent, base), n)

\* ----------------------------------------------------------------- actions

RECURSIVE RegisterAll(_, _)
\* The register_agent calls of build_system, each agent under its own name.
RegisterAll(registry, names) ==
    IF names = {} THEN registry
    ELSE LET n == CHOOSE x \in names : TRUE
         IN  RegisterAll(register_agent(registry, n, n), names \ {n})

\* main.build_system: MessageBus(), the agents' constructors and the seven
\* register_agent calls; n is the num_scenarios of the ScenarioAgent.
build_system(n) ==
    /\ agents = RegisterAll(<<>>, AgentNames)
    /\ queue = <<>>
    /\ sessions = <<>>
    /\ num_scenarios = n
    /\ pc = "idle"
    /\ session_id = NoSession
    /\ max_steps = None
    /\ steps = 0
    /\ runs = 0
    /\ emitted = <<>>
    /\ log = <<>>
    /\ run0 = [queue |-> <<>>, emitted |-> 0, log |-> 0]
    /\ registered = <<>>

\* bus.send(msg) by the program that owns the bus, between two run calls.
Send(msg) ==
    /\ pc = "idle"
    /\ Len(emitted) < MaxSends
    /\ LET m == Stamp(<<msg>>, Len(emitted))[1]
       IN  /\ queue' = send(queue, m)
           /\ emitted' = Append(emitted, m)
    /\ UNCHANGED <<agents, sessions, num_scenarios, pc, session_id, max_steps,
                   steps, runs, log, run0, registered, status>>

\* run entered on a queue of its own: what an earlier call left is gone.
RunOnFreshQueue(filter, limit) ==
    /\ pc = "idle"
    /\ pc' = "run"
    /\ session_id' = filter
    /\ max_steps' = limit
    /\ steps' = 0
    /\ runs' = runs + 1
    /\ queue' = IF runs = 0 THEN queue ELSE <<>>
    /\ run0' = [queue |-> queue, emitted |-> Len(emitted), log |-> Len(log)]
    /\ UNCHANGED <<agents, sessions, num_scenarios, emitted, log, registered,
                   status>>

\* bus.run(session_id=filter, max_steps=limit) is entered: steps = 0.
Run(filter, limit) ==
    /\ pc = "idle"
    /\ pc' = "run"
    /\ session_id' = filter
    /\ max_steps' = limit
    /\ steps' = 0
    /\ runs' = runs + 1
    /\ run0' = [queue |-> queue, emitted |-> Len(emitted), log |-> Len(log)]
    /\ UNCHANGED <<agents, queue, sessions, num_scenarios, emitted, log,
                   registered, status>>

\* A run call of the owner of the bus, one of at most MaxRuns.
RunCall(filter, limit) ==
    /\ runs < MaxRuns
    /\ Run(filter, limit)

\* One iteration of run's loop: pop, then recycle, drop or dispatch.
RunStep(cap) ==
    /\ pc = "run"
    /\ LoopContinues(queue, max_steps, steps)
    /\ steps < cap
    /\ \E env \in Environments(Lookup(agents, Head(queue).receiver),
                               Head(queue), num_scenarios) :
         LET it == Iteration(queue, agents, sessions, session_id, steps, env,
                             Len(emitted))
         IN  /\ queue' = it.queue
             /\ sessions' = it.sessions
             /\ steps' = it.steps
             /\ pc' = IF it.raises THEN "raised" ELSE "run"
             /\ emitted' = emitted \o it.sent
             /\ log' = Append(log, [msg |-> Head(queue),
                                    outcome |-> it.outcome,
                                    run |-> runs,
                                    filter |-> session_id,
                                    sent |-> it.sent,
                                    scenarios |-> env.scenarios,
                                    agent |-> IF it.outcome = "recycled"
                                              THEN "None"
                                              ELSE Lookup(agents,
                                                       Head(queue).receiver)])
    /\ UNCHANGED <<agents, num_scenarios, session_id, max_steps, runs, run0,
                   registered, status>>

\* run returns: the queue is empty or max_steps is reached.
RunReturn ==
    /\ pc = "run"
    /\ ~LoopContinues(queue, max_steps, steps)
    /\ pc' = "idle"
    /\ UNCHANGED <<agents, queue, sessions, num_scenarios, session_id,
                   max_steps, steps, runs, emitted, log, run0, registered,
                   status>>

\* ------------------------------------------------------- specifications

\* The envelopes the owner of the bus sends in Spec: scenarios to simulate
\* and envelopes for an agent that does not exist.
BusMenu ==
    {AgentMessage("User", "SimulationAgent", "SCENARIO",
         [ok |-> TRUE, scenario_id |-> 1, score |-> 1], s) : s \in Sessions}
    \cup {AgentMessage("User", "NoSuchAgent", "GOAL", OkPayload, s) :
             s \in Sessions}

Filters == Sessions \cup {NoSession}
Limits == (0..MaxSteps) \cup {None}

\* A bus built and used on its own: no session file is written.
Init ==
    /\ build_system(MaxK)
    /\ status = <<>>

Next ==
    \/ \E msg \in BusMenu : Send(msg)
    \/ \E filter \in Filters, limit \in Limits : RunCall(filter, limit)
    \/ RunStep(MaxLoop)
    \/ RunReturn

\* The bus under any sends and run calls of its owner.
Spec == Init /\ [][Next]_vars

\* The envelopes the owner of the bus sends in SpecEval: counts and results
\* for the EvaluationAgent, results without their fields included.
EvalMenu ==
    {AgentMessage("User", "EvaluationAgent", "SCENARIO_COUNT",
         [ok |-> TRUE, count |-> k], s) : k \in 1..MaxK, s \in Sessions}
    \cup {AgentMessage("User", "EvaluationAgent", "SIM_RESULT",
             [ok |-> TRUE, scenario_id |-> 1, score |-> c], s) :
             c \in Scores, s \in Sessions}
    \cup {AgentMessage("User", "EvaluationAgent", "SIM_RESULT", BadPayload, s) :
             s \in Sessions}

NextEval ==
    \/ \E msg \in EvalMenu : Send(msg)
    \/ RunCall(NoSession, None)
    \/ RunStep(MaxLoop)
    \/ RunReturn

\* The EvaluationAgent under any order of counts and results.
SpecEval == Init /\ [][NextEval]_vars

\* update_session_status finding no file for the session: nothing is saved.
update_session_status_unsaved(file, new) ==
    file

\* session_manager.start_session: the file of a new session, saved with the
\* status "created".
start_session == <<"created">>

\* session_manager.update_session_status on the session's file: the state is
\* loaded, given its new status and saved; without a file load_session
\* returns None and nothing is saved.
update_session_status(file, new) ==
    IF file = <<>> THEN file ELSE Append(file, new)

\* run_session up to bus.send(start_msg): the session started and its status
\* set to "running" (lines 67-70), then a bus of its own for the session,
\* with a ScenarioAgent of any num_scenarios (line 72).
InitSession ==
    /\ \E n \in 0..MaxK : build_system(n)
    /\ status = update_session_status(start_session, "running")

\* main.run_session, lines 75-85: the START envelope of the session.
SendStart(sid) ==
    /\ emitted = <<>>
    /\ Send(AgentMessage("User", "Orchestrator", "START", OkPayload, sid))

\* main.run_session, line 88: bus.run(session_id=session_id)
RunSession ==
    /\ Len(emitted) = 1
    /\ RunCall(emitted[1].session_id, None)

NextSession ==
    \/ \E sid \in Sessions : SendStart(sid)
    \/ RunSession
    \/ RunStep(2 * MaxK + 8)
    \/ RunReturn

\* One run_session call.
SpecSession == InitSession /\ [][NextSession]_vars

\* The orders K results can arrive in.
ArrivalOrders(K) ==
    {p \in [1..K -> 1..K] : \A i, j \in 1..K : i # j => p[i] # p[j]}

\* The SCENARIO_COUNT of a session with Len(scores) scenarios, followed by
\* the SIM_RESULT envelopes of the scenarios arriving in the order p; scores
\* gives each scenario its score.
FanOutMessages(sid, scores, p) ==
    <<AgentMessage("ScenarioAgent", "EvaluationAgent", "SCENARIO_COUNT",
          [ok |-> TRUE, count |-> Len(scores)], sid)>>
    \o [i \in 1..Len(scores) |->
           AgentMessage("SimulationAgent", "EvaluationAgent", "SIM_RESULT",
               [ok |-> TRUE, scenario_id |-> p[i], score |-> scores[p[i]]],
               sid)]

\* The bus.send calls that seed the queue with a sequence of envelopes, for
\* a session that has none yet.
SendSequence(sid, msgs) ==
    /\ pc = "idle"
    /\ runs = 0
    /\ \A i \in 1..Len(emitted) : emitted[i].session_id # sid
    /\ LET ms == Stamp(msgs, Len(emitted))
       IN  /\ queue' = SendAll(queue, ms)
           /\ emitted' = emitted \o ms
    /\ UNCHANGED <<agents, sessions, num_scenarios, pc, session_id, max_steps,
                   steps, runs, log, run0, registered, status>>

NextArrival ==
    \/ \E sid \in Sessions, K \in 1..MaxK :
          \E scores \in [1..K -> Scores], p \in ArrivalOrders(K) :
              SendSequence(sid, FanOutMessages(sid, scores, p))
    \/ RunCall(NoSession, None)
    \/ RunStep(2 * MaxK + 6)
    \/ RunReturn

\* Sessions whose results reach the EvaluationAgent in any order.
SpecArrival == Init /\ [][NextArrival]_vars

\* The envelopes sent before the first run call, as the owner of the bus
\* builds them again: the same fields in new objects.
FirstSequence ==
    [i \in 1..run0.emitted |-> [emitted[i] EXCEPT !.id = 0]]

\* The owner of the bus has sent the first sequence a second time.
Resent ==
    \E i \in (run0.emitted + 1)..Len(emitted) :
        emitted[i].sender \notin {"EvaluationAgent", "ReportAgent"}

\* After the first run has returned on an empty queue, the bus.send calls of
\* the first sequence are made again, on the same bus and agents.
Resend ==
    /\ pc = "idle"
    /\ runs = 1
    /\ queue = <<>>
    /\ ~Resent
    /\ LET ms == Stamp(FirstSequence, Len(emitted))
       IN  /\ queue' = SendAll(queue, ms)
           /\ emitted' = emitted \o ms
    /\ UNCHANGED <<agents, sessions, num_scenarios, pc, session_id, max_steps,
                   steps, runs, log, run0, registered, status>>

\* bus.run() on the seeded queue, and once more on the queue seeded again.
RunSequence ==
    /\ queue # <<>>
    /\ runs = 0 \/ (runs = 1 /\ Resent)
    /\ Run(NoSession, None)

NextReplay ==
    \/ \E sid \in Sessions, K \in 1..MaxK, count \in 1..MaxK :
          \E scores \in [1..K -> Scores], p \in ArrivalOrders(K) :
              /\ emitted = <<>>
              /\ SendSequence(sid,
                     [FanOutMessages(sid, scores, p)
                          EXCEPT ![1].payload.count = count])
    \/ RunSequence
    \/ Resend
    \/ RunStep(2 * MaxK + 6)
    \/ RunReturn

\* A session delivered to the EvaluationAgent, and delivered again.
SpecReplay == Init /\ [][NextReplay]_vars

\* bus.register_agent(name, agent) by the owner of the bus, between two run
\* calls.
Register(name, agent) ==
    /\ pc = "idle"
    /\ Len(registered) < MaxRegs
    /\ agents' = register_agent(agents, name, agent)
    /\ registered' = Append(registered, [name |-> name, agent |-> agent,
                                         at |-> Len(log),
                                         sent |-> Len(emitted)])
    /\ UNCHANGED <<queue, sessions, num_scenarios, pc, session_id, max_steps,
                   steps, runs, emitted, log, run0, status>>

\* The names the owner registers agents under in SpecRegistry: one that
\* build_system has bound and one that it has not.
RegistryNames == {"SimulationAgent", "NoSuchAgent"}
\* The agents registered under them.
RegistryAgents == {"SimulationAgent", "PolicyAgent"}

\* The envelopes the owner sends in SpecRegistry, as many as it makes
\* register_agent calls, before its one run call.
RegistryMenu ==
    {AgentMessage("User", n, "SCENARIO",
         [ok |-> TRUE, scenario_id |-> 1, score |-> 1], "s1") :
         n \in RegistryNames}

NextRegistry ==
    \/ \E name \in RegistryNames, agent \in RegistryAgents :
          Register(name, agent)
    \/ \E msg \in RegistryMenu : Len(emitted) < MaxRegs /\ Send(msg)
    \/ runs = 0 /\ Run(NoSession, None)
    \/ RunStep(MaxLoop)
    \/ RunReturn

\* The bus with agents registered and registered again by its owner.
SpecRegistry == Init /\ [][NextRegistry]_vars

\* The types an agent's handle_message acts on; it logs and returns on any
\* other.
Handles(agent) ==
    CASE agent = "Orchestrator" -> {"START", "REPORT_READY"}
      [] agent = "PolicyAgent" -> {"GOAL"}
      [] agent = "DataAgent" -> {"POLICY"}
      [] agent = "ScenarioAgent" -> {"REGION_CONTEXT"}
      [] agent = "SimulationAgent" -> {"SCENARIO"}
      [] agent = "EvaluationAgent" -> {"SCENARIO_COUNT", "SIM_RESULT"}
      [] agent = "ReportAgent" -> {"EVAL_SUMMARY"}

\* The envelopes the owner sends in SpecTypes: to every agent envelopes of
\* types it does not act on, and to the EvaluationAgent a count and results
\* as well.
TypesMenu ==
    {m \in {AgentMessage("User", a, ty,
                [ok |-> TRUE, scenario_id |-> 1, score |-> 1], "s1") :
                a \in AgentNames, ty \in {"START", "SIM_RESULT"}} :
        m.type \in Handles(m.receiver) => m.receiver = "EvaluationAgent"}
    \cup {AgentMessage("User", "EvaluationAgent", "SCENARIO_COUNT",
              [ok |-> TRUE, count |-> MaxK], "s1")}

NextTypes ==
    \/ \E msg \in TypesMenu : Send(msg)
    \/ RunCall(NoSession, None)
    \/ RunStep(MaxLoop)
    \/ RunReturn

\* The agents receiving envelopes of types that are not theirs.
SpecTypes == Init /\ [][NextTypes]_vars

\* One iteration of run's loop in which the handler raises as it starts, for
\* whatever reason: the except branch of lines 105-111.
RunStepRaising(cap) ==
    /\ pc = "run"
    /\ LoopContinues(queue, max_steps, steps)
    /\ steps < cap
    /\ ~Foreign(session_id, Head(queue))
    /\ Lookup(agents, Head(queue).receiver) # "None"
    /\ Head(queue).type \in Handles(Lookup(agents, Head(queue).receiver))
    /\ LET it == Dispatch(Tail(queue), Outcome(<<>>, sessions, TRUE), <<>>,
                          steps)
       IN  /\ queue' = it.queue
           /\ sessions' = it.sessions
           /\ steps' = it.steps
           /\ pc' = IF it.raises THEN "raised" ELSE "run"
           /\ emitted' = emitted \o it.sent
           /\ log' = Append(log, [msg |-> Head(queue),
                                  outcome |-> it.outcome,
                                  run |-> runs,
                                  filter |-> session_id,
                                  sent |-> it.sent,
                                  scenarios |-> <<>>,
                                  agent |-> Lookup(agents,
                                                Head(queue).receiver)])
    /\ UNCHANGED <<agents, num_scenarios, session_id, max_steps, runs, run0,
                   registered, status>>

NextFailure ==
    \/ \E sid \in Sessions : SendStart(sid)
    \/ RunSession
    \/ RunStep(2 * MaxK + 8)
    \/ RunStepRaising(2 * MaxK + 8)
    \/ RunReturn

\* One run_session call in which any handler can raise. The loop of run
\* goes on by itself, so its steps are taken as long as they are possible.
SpecFailure ==
    InitSession /\ [][NextFailure]_vars /\ WF_vars(NextFailure)

\* run popping envelopes while a handler it called has not returned.
AtLoopTopOrInHandler(p) ==
    p \in {"run", "handler"}

\* Where run pops: at the top of its loop, which it reaches from the call
\* and from the end of an iteration, after agent.handle_message returned or
\* raised (lines 69-74 and 102-113).
AtLoopTop(p) ==
    p = "run"

\* The last pop, in SpecHandler: the envelope whose handler runs while pc is
\* "handler"; its sent field holds the envelopes the handler passes to send.
Current == log[Len(log)]

\* The number of its envelopes the running handler has passed to send.
SentSoFar ==
    IF Current.sent = <<>> THEN 0
    ELSE Len(emitted) - (Current.sent[1].id - 1)

\* The start of an iteration of run's loop, up to the call of the handler:
\* the pop, the session test, the lookup and agent.handle_message(msg, self)
\* entered (lines 69-104).
HandlerEnter(cap) ==
    /\ AtLoopTop(pc)
    /\ LoopContinues(queue, max_steps, steps)
    /\ steps < cap
    /\ ~Foreign(session_id, Head(queue))
    /\ Lookup(agents, Head(queue).receiver) # "None"
    /\ \E env \in Environments(Lookup(agents, Head(queue).receiver),
                               Head(queue), num_scenarios) :
         LET agent == Lookup(agents, Head(queue).receiver)
             h == handle_message(agent, Head(queue), sessions, env)
         IN  log' = Append(log, [msg |-> Head(queue),
                                 outcome |-> IF h.raised THEN "failed"
                                             ELSE "handled",
                                 run |-> runs,
                                 filter |-> session_id,
                                 sent |-> Stamp(h.sent, Len(emitted)),
                                 scenarios |-> env.scenarios,
                                 agent |-> agent])
    /\ queue' = Tail(queue)
    /\ pc' = "handler"
    /\ UNCHANGED <<agents, sessions, num_scenarios, session_id, max_steps,
                   steps, runs, emitted, run0, registered, status>>

\* One bus.send call of the running handler.
HandlerSend ==
    /\ pc = "handler"
    /\ SentSoFar < Len(Current.sent)
    /\ queue' = send(queue, Current.sent[SentSoFar + 1])
    /\ emitted' = Append(emitted, Current.sent[SentSoFar + 1])
    /\ UNCHANGED <<agents, sessions, num_scenarios, pc, session_id, max_steps,
                   steps, runs, log, run0, registered, status>>

\* The handler returns, or raises into run's except branch, and the
\* iteration ends with steps += 1 (lines 104-113).
HandlerReturn ==
    /\ pc = "handler"
    /\ SentSoFar = Len(Current.sent)
    /\ sessions' = handle_message(Current.agent, Current.msg, sessions,
                       [fails |-> Current.outcome = "failed",
                        scenarios |-> Current.scenarios]).sessions
    /\ steps' = steps + 1
    /\ pc' = "run"
    /\ UNCHANGED <<agents, queue, num_scenarios, session_id, max_steps, runs,
                   emitted, log, run0, registered, status>>

NextHandler ==
    \/ \E sid \in Sessions : SendStart(sid)
    \/ RunSession
    \/ HandlerEnter(2 * MaxK + 8)
    \/ HandlerSend
    \/ HandlerReturn
    \/ RunReturn

\* One run_session call with each handler's calls as steps of their own.
SpecHandler == InitSession /\ [][NextHandler]_vars

\* bus.run(session_id=session_id, max_steps=limit) on the bus of a session:
\* the call of run_session, and the same call under a step limit.
RunSessionLimited ==
    /\ Len(emitted) = 1
    /\ \E limit \in (0..(2 * MaxK + 7)) \cup {None} :
          RunCall(emitted[1].session_id, limit)

NextBudget ==
    \/ \E sid \in Sessions : SendStart(sid)
    \/ RunSessionLimited
    \/ RunStep(2 * MaxK + 8)
    \/ RunReturn

\* One session run to its end or to a step limit. The loop of run goes on
\* by itself, so its steps are taken as long as they are possible.
SpecBudget ==
    InitSession /\ [][NextBudget]_vars /\ WF_vars(NextBudget)

\* bus.run(session_id=session_id, max_steps=limit) on the bus of a session
\* that has not been run: a call that a step limit can stop.
RunFirst ==
    /\ Len(emitted) = 1
    /\ runs = 0
    /\ \E limit \in 0..(2 * MaxK + 7) : Run(emitted[1].session_id, limit)

\* bus.run(session_id=session_id) once more on the same bus, after the first
\* call has returned.
RunAgain ==
    /\ runs = 1
    /\ Run(emitted[1].session_id, None)

NextResume ==
    \/ \E sid \in Sessions : SendStart(sid)
    \/ RunFirst
    \/ RunAgain
    \/ RunStep(2 * MaxK + 8)
    \/ RunReturn

\* One session run under a step limit and then run again without one.
SpecResume == InitSession /\ [][NextResume]_vars

\* The envelopes the owner of the bus sends in SpecCounts: counts from zero
\* on and results for the EvaluationAgent, results without their fields
\* included.
CountsMenu ==
    {AgentMessage("User", "EvaluationAgent", "SCENARIO_COUNT",
         [ok |-> TRUE, count |-> k], s) : k \in 0..MaxK, s \in Sessions}
    \cup {AgentMessage("User", "EvaluationAgent", "SIM_RESULT",
             [ok |-> TRUE, scenario_id |-> 1, score |-> 1], s) :
             s \in Sessions}
    \cup {AgentMessage("User", "EvaluationAgent", "SIM_RESULT", BadPayload, s) :
             s \in Sessions}

NextCounts ==
    \/ \E msg \in CountsMenu : Send(msg)
    \/ RunCall(NoSession, None)
    \/ RunStep(MaxLoop)
    \/ RunReturn

\* The EvaluationAgent under any order of counts, a count of zero included,
\* and results.
SpecCounts == Init /\ [][NextCounts]_vars

\* main.run_session, line 90: bus.run has returned and the status of the
\* session is set to "completed"; run_session returns.
Completed ==
    /\ pc = "idle"
    /\ runs = 1
    /\ pc' = "done"
    /\ status' = update_session_status(status, "completed")
    /\ UNCHANGED <<agents, queue, sessions, num_scenarios, session_id,
                   max_steps, steps, runs, emitted, log, run0, registered>>

NextStatus ==
    \/ \E sid \in Sessions : SendStart(sid)
    \/ runs = 0 /\ RunSession
    \/ RunStep(2 * MaxK + 8)
    \/ RunStepRaising(2 * MaxK + 8)
    \/ RunReturn
    \/ Completed

\* One run_session call from its first line to its last, in which any
\* handler can raise. run_session and the loop of run go on by themselves,
\* so their steps are taken as long as they are possible.
SpecStatus ==
    InitSession /\ [][NextStatus]_vars /\ WF_vars(NextStatus)

\* ------------------------------------------------------------ the claims

\* The pops of the current (or last) run call, oldest first.
RunLog == SubSeq(log, run0.log + 1, Len(log))

\* The envelopes the pops of the current run handed to a handler or dropped.
Delivered ==
    LET kept == SelectSeq(RunLog, LAMBDA e : e.outcome # "recycled")
    IN  [i \in 1..Len(kept) |-> kept[i].msg]

\* Whether the current run dispatches the envelopes of msg's session.
OfDispatchedSession(msg) ==
    session_id = NoSession \/ msg.session_id = session_id

\* A step of the model that pops an envelope.
Pops == Len(log') = Len(log) + 1

\* C1: in a run restricted to a session, every envelope handed to a handler
\* (or dropped at the lookup) carries that session's id.
C1_OnlyFilteredSession ==
    \A i \in 1..Len(log) :
        (log[i].filter # NoSession /\ log[i].outcome # "recycled")
            => log[i].msg.session_id = log[i].filter

\* A restricted run has popped an envelope of another session and has
\* handed one of its own session to a handler.
C1_Witness ==
    /\ session_id # NoSession
    /\ \E i \in 1..Len(RunLog) : RunLog[i].msg.session_id # session_id
    /\ \E i \in 1..Len(RunLog) : RunLog[i].outcome = "handled"

\* The envelopes of the dispatched session in the order they were sent:
\* those queued when run was called, then those sent during the call.
SendOrder ==
    SelectSeq(run0.queue \o SubSeq(emitted, run0.emitted + 1, Len(emitted)),
              OfDispatchedSession)

\* C5: within one run call the envelopes of the dispatched session are
\* delivered in the order they were queued: first those queued before the
\* call, in queue order, then those sent by handlers, in the order sent.
C5_FifoDelivery ==
    /\ Len(Delivered) <= Len(SendOrder)
    /\ \A i \in 1..Len(Delivered) : Delivered[i] = SendOrder[i]

\* A restricted run has delivered an envelope that a handler of this run
\* sent, after recycling an envelope of another session and while a
\* further envelope was queued behind the sender's.
C5_Witness ==
    /\ session_id # NoSession
    /\ Len(run0.queue) >= 3
    /\ \E i \in 1..Len(RunLog) : RunLog[i].outcome = "recycled"
    /\ \E i \in 1..Len(Delivered) : Delivered[i].id > run0.emitted

\* The envelopes of the run's session that are in the queue.
QueueOfSession == SelectSeq(queue, LAMBDA m : m.session_id = session_id)

\* C6: a run restricted to a session, without max_steps, returns when the
\* queue holds no envelope of that session, whatever else it holds.
C6_ReturnsWhenSessionDrained ==
    [][(/\ pc = "run"
        /\ session_id # NoSession
        /\ max_steps = None
        /\ QueueOfSession = <<>>) => pc' = "idle"]_vars

\* C7: every pop of a run counts one step, a run with max_steps = L pops at
\* most L envelopes, and with L = 0 it leaves the queue as it found it.
C7_StepLimit ==
    /\ steps = Len(RunLog)
    /\ max_steps # None => Len(RunLog) <= max_steps
    /\ (runs > 0 /\ max_steps = 0 /\ Len(emitted) = run0.emitted)
           => queue = run0.queue

\* A run has returned at its step limit with envelopes left in the queue,
\* the last step spent on recycling an envelope of another session.
C7_Witness ==
    /\ pc = "idle"
    /\ max_steps # None /\ max_steps > 0
    /\ steps = max_steps
    /\ queue # <<>>
    /\ log[Len(log)].outcome = "recycled"

\* C8: a popped envelope whose receiver is not registered (and which passed
\* the session test that precedes the lookup, where an envelope of another
\* session is recycled) is dropped: no handler runs, nothing is sent or
\* re-queued, no exception leaves run, and the loop goes on with the rest
\* of the queue.
C8_UnknownReceiverDropped ==
    [][(/\ Pops
        /\ OfDispatchedSession(Head(queue))
        /\ Head(queue).receiver \notin DOMAIN agents)
       => (/\ pc' = "run"
           /\ queue' = Tail(queue)
           /\ sessions' = sessions
           /\ emitted' = emitted
           /\ log'[Len(log')].outcome \notin {"handled", "failed"})]_vars

\* An envelope for an unregistered receiver was dropped and the envelope
\* behind it was then handed to its handler.
C8_Witness ==
    \E i \in 1..Len(RunLog) :
        /\ RunLog[i].msg.receiver \notin DOMAIN agents
        /\ RunLog[i].outcome # "recycled"
        /\ \E j \in (i + 1)..Len(RunLog) : RunLog[j].outcome = "handled"

\* C9: when a handler raises, the exception stays inside run, the envelope
\* is gone from the queue and the rest of the queue is as it was, in
\* order, for the iterations that follow.
C9_HandlerFailureContained ==
    [][(Pops /\ log'[Len(log')].outcome = "failed")
       => (/\ pc' = "run"
           /\ queue' = Tail(queue)
           /\ \A i \in 1..Len(queue') : queue'[i].id # Head(queue).id)]_vars

\* A handler raised and envelopes popped later in the same run, of the same
\* and of another session, were handed to their handlers.
C9_Witness ==
    \E i \in 1..Len(RunLog) :
        /\ RunLog[i].outcome = "failed"
        /\ \E j \in (i + 1)..Len(RunLog) :
              /\ RunLog[j].outcome = "handled"
              /\ RunLog[j].msg.session_id = RunLog[i].msg.session_id
        /\ \E j \in (i + 1)..Len(RunLog) :
              /\ RunLog[j].outcome = "handled"
              /\ RunLog[j].msg.session_id # RunLog[i].msg.session_id

\* The log entries of an envelope of session s handed to the EvaluationAgent.
IsEvalDelivery(e, s) ==
    /\ e.outcome \in {"handled", "failed"}
    /\ e.msg.receiver = "EvaluationAgent"
    /\ e.msg.session_id = s

\* The deliveries of a type to the EvaluationAgent for session s among the
\* first n pops.
EvalDeliveries(s, type, n) ==
    SelectSeq(SubSeq(log, 1, n),
              LAMBDA e : IsEvalDelivery(e, s) /\ e.msg.type = type)

\* The EVAL_SUMMARY envelopes sent for session s.
Summaries(s) ==
    SelectSeq(emitted,
              LAMBDA m : m.type = "EVAL_SUMMARY" /\ m.session_id = s)

AllOk(entries) ==
    \A i \in 1..Len(entries) : entries[i].msg.payload.ok

\* C2: once the one SCENARIO_COUNT{count=K} and the K SIM_RESULT envelopes of
\* a session have been delivered to the EvaluationAgent, in whatever order,
\* exactly one EVAL_SUMMARY has been sent for the session.
C2_FiresInAnyOrder ==
    \A s \in Sessions :
        LET counts == EvalDeliveries(s, "SCENARIO_COUNT", Len(log))
            results == EvalDeliveries(s, "SIM_RESULT", Len(log))
        IN  (/\ Len(counts) = 1
             /\ counts[1].msg.payload.count >= 1
             /\ Len(results) = counts[1].msg.payload.count
             /\ AllOk(results))
            => Len(Summaries(s)) = 1

\* C3: with the one SCENARIO_COUNT{count=K} of a session delivered before
\* its K-th SIM_RESULT, the first K-1 results send nothing and the K-th
\* sends one EVAL_SUMMARY to ReportAgent for the session and removes the
\* session's record.
C3_FiresOnKthResult ==
    \A i \in 1..Len(log) :
        LET e == log[i]
            s == e.msg.session_id
            counts == EvalDeliveries(s, "SCENARIO_COUNT", i - 1)
            results == EvalDeliveries(s, "SIM_RESULT", i)
            n == Len(results)
        IN  (/\ IsEvalDelivery(e, s)
             /\ e.msg.type = "SIM_RESULT"
             /\ AllOk(results)
             /\ Len(counts) = 1
             /\ counts[1].msg.payload.count >= 1
             /\ n <= counts[1].msg.payload.count)
            => IF n < counts[1].msg.payload.count
               THEN e.sent = <<>>
               ELSE /\ Len(e.sent) = 1
                    /\ e.sent[1].type = "EVAL_SUMMARY"
                    /\ e.sent[1].receiver = "ReportAgent"
                    /\ e.sent[1].session_id = s
                    /\ (i = Len(log) => s \notin DOMAIN sessions)

\* The last pop was the second of two results of a session whose count, 2,
\* arrived between them: the barrier has just fired.
C3_Witness ==
    /\ Len(log) >= 3
    /\ LET e == log[Len(log)]
           s == e.msg.session_id
           counts == EvalDeliveries(s, "SCENARIO_COUNT", Len(log))
           results == EvalDeliveries(s, "SIM_RESULT", Len(log))
       IN  /\ IsEvalDelivery(e, s)
           /\ e.msg.type = "SIM_RESULT"
           /\ Len(counts) = 1
           /\ counts[1].msg.payload.count = 2
           /\ Len(results) = 2
           /\ Len(e.sent) = 1
           /\ IsEvalDelivery(log[Len(log) - 1], s)
           /\ log[Len(log) - 1].msg.type = "SCENARIO_COUNT"

\* C10: after the barrier fired for a session, SIM_RESULT envelopes that
\* follow for the session send nothing (as long as no new count arrives),
\* and a session with one count gets at most one EVAL_SUMMARY.
C10_NoSecondSummary ==
    /\ \A i \in 1..Len(log) : \A j \in (i + 1)..Len(log) :
          LET s == log[i].msg.session_id
          IN  (/\ IsEvalDelivery(log[i], s)
               /\ log[i].sent # <<>>
               /\ IsEvalDelivery(log[j], s)
               /\ log[j].msg.type = "SIM_RESULT"
               /\ Len(EvalDeliveries(s, "SCENARIO_COUNT", j))
                      = Len(EvalDeliveries(s, "SCENARIO_COUNT", i)))
              => log[j].sent = <<>>
    /\ \A s \in Sessions :
          Len(EvalDeliveries(s, "SCENARIO_COUNT", Len(log))) <= 1
              => Len(Summaries(s)) <= 1

\* The barrier of a session fired and a further result of the session was
\* delivered to the EvaluationAgent after that.
C10_Witness ==
    \E i \in 1..Len(log) :
        LET s == log[i].msg.session_id
        IN  /\ IsEvalDelivery(log[i], s)
            /\ log[i].sent # <<>>
            /\ Len(EvalDeliveries(s, "SIM_RESULT", Len(log)))
                   >= Len(EvalDeliveries(s, "SIM_RESULT", i)) + 1

\* C11: once the barrier of a session has fired and its record is deleted,
\* a SIM_RESULT delivered for the session leaves the EvaluationAgent without
\* a record of the session.
C11_LateResultDiscarded ==
    [][(/\ Pops
        /\ log'[Len(log')].outcome \in {"handled", "failed"}
        /\ Head(queue).receiver = "EvaluationAgent"
        /\ Head(queue).type = "SIM_RESULT"
        /\ Summaries(Head(queue).session_id) # <<>>
        /\ Head(queue).session_id \notin DOMAIN sessions)
       => Head(queue).session_id \notin DOMAIN sessions']_vars

\* The count the EvaluationAgent holds for session s after the first n pops:
\* the one of the last SCENARIO_COUNT delivered.
ExpectedAt(s, n) ==
    LET counts == EvalDeliveries(s, "SCENARIO_COUNT", n)
    IN  IF counts = <<>> THEN None
        ELSE counts[Len(counts)].msg.payload.count

\* C12: whatever counts and results are delivered for a session, the list
\* aggregated when the barrier fires holds exactly `expected` results.
C12_FiresAtThreshold ==
    \A i \in 1..Len(log) :
        (IsEvalDelivery(log[i], log[i].msg.session_id) /\ log[i].sent # <<>>)
            => log[i].sent[1].payload.num_scenarios
                   = ExpectedAt(log[i].msg.session_id, i)

\* The i-th pop handed a REGION_CONTEXT envelope to the ScenarioAgent, which
\* returned without raising after _generate_scenarios gave it k scenarios.
Generated(i, k) ==
    /\ log[i].outcome = "handled"
    /\ Lookup(agents, log[i].msg.receiver) = "ScenarioAgent"
    /\ log[i].msg.type = "REGION_CONTEXT"
    /\ Len(log[i].scenarios) = k

\* C13: when the ScenarioAgent generates no scenario for a REGION_CONTEXT
\* envelope it sends neither a SCENARIO_COUNT nor a SCENARIO, and no envelope
\* of the session is ever handed to the EvaluationAgent.
C13_NoScenarioNoFanOut ==
    \A i \in 1..Len(log) :
        Generated(i, 0) =>
            /\ \A k \in 1..Len(log[i].sent) :
                  log[i].sent[k].type \notin {"SCENARIO_COUNT", "SCENARIO"}
            /\ \A j \in 1..Len(log) :
                  ~IsEvalDelivery(log[j], log[i].msg.session_id)

\* A session whose ScenarioAgent generated nothing has run until bus.run
\* returned on the empty queue.
C13_Witness ==
    /\ pc = "idle"
    /\ runs = 1
    /\ queue = <<>>
    /\ \E i \in 1..Len(log) : Generated(i, 0)

\* C14: when the ScenarioAgent generates no scenario it sends a
\* NoWorkGenerated envelope for the session.
C14_NoWorkGeneratedSent ==
    \A i \in 1..Len(log) :
        Generated(i, 0) =>
            \E k \in 1..Len(log[i].sent) :
                /\ log[i].sent[k].type = "NoWorkGenerated"
                /\ log[i].sent[k].session_id = log[i].msg.session_id

\* C15: with K >= 1 scenarios generated, handling a REGION_CONTEXT envelope
\* appends to the queue one SCENARIO_COUNT{count=K} for the EvaluationAgent
\* and behind it K SCENARIO envelopes for the SimulationAgent, and nothing
\* else.
C15_CountThenScenarios ==
    [][(/\ Pops
        /\ log'[Len(log')].outcome = "handled"
        /\ Lookup(agents, Head(queue).receiver) = "ScenarioAgent"
        /\ Head(queue).type = "REGION_CONTEXT"
        /\ Len(log'[Len(log')].scenarios) >= 1)
       => LET e == log'[Len(log')]
              K == Len(e.scenarios)
          IN  /\ queue' = Tail(queue) \o e.sent
              /\ Len(e.sent) = K + 1
              /\ e.sent[1].type = "SCENARIO_COUNT"
              /\ e.sent[1].receiver = "EvaluationAgent"
              /\ e.sent[1].payload.count = K
              /\ \A k \in 2..(K + 1) :
                    /\ e.sent[k].type = "SCENARIO"
                    /\ e.sent[k].receiver = "SimulationAgent"
              /\ \A k \in 1..(K + 1) :
                    e.sent[k].session_id = Head(queue).session_id]_vars

\* The ScenarioAgent has generated two scenarios and sent its envelopes.
C15_Witness ==
    \E i \in 1..Len(log) :
        /\ Generated(i, 2)
        /\ Len(log[i].sent) = 3

\* The results of session s delivered to the EvaluationAgent by the first n
\* pops, in the order they arrived.
Arrived(s, n) ==
    LET es == EvalDeliveries(s, "SIM_RESULT", n)
    IN  [k \in 1..Len(es) |-> es[k].msg.payload]

\* The pops at which the EvaluationAgent sent the EVAL_SUMMARY of session s.
Fired(s) ==
    {i \in 1..Len(log) : IsEvalDelivery(log[i], s) /\ log[i].sent # <<>>}

\* C16: the best_scenario of an EVAL_SUMMARY has the highest score among the
\* accumulated results and is the first arrived of those with that score;
\* ranked_scenarios holds every accumulated result once, scores
\* non-increasing.
C16_BestIsFirstMaximal ==
    \A s \in Sessions : \A i \in Fired(s) :
        LET R == Arrived(s, i)
            best == log[i].sent[1].payload.best_scenario
            ranked == log[i].sent[1].payload.ranked_scenarios
        IN  /\ \E k \in 1..Len(R) :
                  /\ R[k] = best
                  /\ \A j \in 1..Len(R) : R[j].score <= best.score
                  /\ \A j \in 1..(k - 1) : R[j].score < best.score
            /\ Len(ranked) = Len(R)
            /\ \A k \in 1..Len(R) :
                  Cardinality({j \in 1..Len(ranked) : ranked[j] = R[k]}) = 1
            /\ \A j \in 1..(Len(ranked) - 1) :
                  ranked[j].score >= ranked[j + 1].score

\* A summary was sent for two results of equal score, the scenario with the
\* higher id having arrived first, and one for two results of which the
\* second arrived has the higher score.
C16_Witness ==
    /\ \E s \in Sessions : \E i \in Fired(s) :
          LET R == Arrived(s, i)
          IN  /\ Len(R) = 2
              /\ R[1].score = R[2].score
              /\ R[1].scenario_id > R[2].scenario_id
    /\ \E s \in Sessions : \E i \in Fired(s) :
          LET R == Arrived(s, i)
          IN  Len(R) = 2 /\ R[1].score < R[2].score

\* The set of the elements of a sequence.
Range(f) == {f[i] : i \in DOMAIN f}

\* Sessions s and t have both got their summary, from the same count and the
\* same results.
SameResults(s, t) ==
    /\ Fired(s) # {} /\ Fired(t) # {}
    /\ ExpectedAt(s, Len(log)) = ExpectedAt(t, Len(log))
    /\ Range(Arrived(s, Len(log))) = Range(Arrived(t, Len(log)))

\* The payload of the EVAL_SUMMARY of session s.
SummaryOf(s) == Summaries(s)[1].payload

\* C17 as stated: the same count and the same results give the same
\* best_scenario and the same metrics in every arrival order, equal scores
\* included.
C17_AnyOrderSameSummary ==
    \A s, t \in Sessions :
        SameResults(s, t) =>
            /\ SummaryOf(s).best_scenario = SummaryOf(t).best_scenario
            /\ SummaryOf(s).num_scenarios = SummaryOf(t).num_scenarios

\* C17, amended: the same count and the same results give, in every arrival
\* order, the same best score and the same number of scenarios, and when no
\* two results have the same score the same summary altogether.
C17_DistinctScoresSameSummary ==
    \A s, t \in Sessions :
        SameResults(s, t) =>
            /\ SummaryOf(s).best_scenario.score = SummaryOf(t).best_scenario.score
            /\ SummaryOf(s).num_scenarios = SummaryOf(t).num_scenarios
            /\ (\A x, y \in Range(Arrived(s, Len(log))) :
                    x # y => x.score # y.score)
                   => SummaryOf(s) = SummaryOf(t)

\* Two sessions got their summaries from the same two results of different
\* scores, arrived in opposite orders.
C17_Witness ==
    /\ SameResults("s1", "s2")
    /\ Len(Arrived("s1", Len(log))) = 2
    /\ Arrived("s1", Len(log))[1] = Arrived("s2", Len(log))[2]
    /\ Arrived("s1", Len(log))[1].score # Arrived("s1", Len(log))[2].score

\* The payloads of the EVAL_SUMMARY envelopes of session s sent by the pops
\* of run call r.
SummariesOfRun(s, r) ==
    LET es == SelectSeq(log, LAMBDA e : /\ e.run = r
                                        /\ IsEvalDelivery(e, s)
                                        /\ e.sent # <<>>)
    IN  [k \in 1..Len(es) |-> es[k].sent[1].payload]

\* C18: when the sequence of counts and results of a completed session is
\* sent again and run again, the second run sends an EVAL_SUMMARY equal to
\* the one of the first run.
C18_ReplaySameSummary ==
    \A s \in Sessions :
        (/\ pc = "idle"
         /\ runs = 2
         /\ queue = <<>>
         /\ SummariesOfRun(s, 1) # <<>>)
        => /\ SummariesOfRun(s, 2) # <<>>
           /\ \A k \in 1..Len(SummariesOfRun(s, 2)) :
                 SummariesOfRun(s, 2)[k] = SummariesOfRun(s, 1)[1]

\* The ids of the envelopes of session t in the queue, head first.
QueuedIds(t) ==
    LET ms == SelectSeq(queue, LAMBDA m : m.session_id = t)
    IN  [k \in 1..Len(ms) |-> ms[k].id]

\* C19: between run calls, whatever sends and runs were made, the envelopes
\* of each session that are in the queue are in the order they were sent.
C19_QueueKeepsSendOrder ==
    \A t \in Sessions :
        pc = "idle" =>
            \A k \in 1..(Len(QueuedIds(t)) - 1) :
                QueuedIds(t)[k] < QueuedIds(t)[k + 1]

\* The envelopes in q that a run restricted to session_id does not dispatch.
OtherSessions(q) ==
    {q[k] : k \in {j \in 1..Len(q) : Foreign(session_id, q[j])}}

\* C20: in a run restricted to a session, popping an envelope of another
\* session puts that envelope, unchanged, at the tail of the queue, calls no
\* handler and adds one to steps; the envelopes of other sessions in the
\* queue are the same after the run as before it.
C20_RecycleKeepsOthers ==
    /\ [][(Pops /\ session_id # NoSession
                /\ Head(queue).session_id # session_id)
          => (/\ queue' = Append(Tail(queue), Head(queue))
              /\ steps' = steps + 1
              /\ sessions' = sessions
              /\ emitted' = emitted
              /\ log'[Len(log')].outcome = "recycled")]_vars
    /\ [](pc = "run"
             => /\ OtherSessions(queue) = OtherSessions(run0.queue)
                /\ Len(SelectSeq(queue, LAMBDA m : Foreign(session_id, m)))
                       = Cardinality(OtherSessions(run0.queue)))

\* A restricted run is about to return at its step limit, having recycled
\* one of the two envelopes of another session in the queue.
C20_Witness ==
    /\ pc = "run"
    /\ ~LoopContinues(queue, max_steps, steps)
    /\ session_id # NoSession
    /\ Cardinality(OtherSessions(queue)) >= 2
    /\ \E i \in 1..Len(RunLog) : RunLog[i].outcome = "recycled"

\* The REPORT_READY envelopes sent for session s.
Reports(s) ==
    SelectSeq(emitted,
              LAMBDA m : m.type = "REPORT_READY" /\ m.session_id = s)

\* A run_session call has returned from bus.run, no handler raised and the
\* ScenarioAgent generated at least one scenario.
CleanSessionDone(s) ==
    /\ pc = "idle"
    /\ runs = 1
    /\ emitted[1].session_id = s
    /\ \A i \in 1..Len(log) : log[i].outcome = "handled"
    /\ \E i \in 1..Len(emitted) : emitted[i].type = "SCENARIO"

\* C4: a session started by one START envelope, with no handler raising
\* and at least one scenario generated, has sent exactly one REPORT_READY,
\* to the Orchestrator, and the Orchestrator has handled it when run returns.
C4_OneReportReady ==
    \A s \in Sessions :
        CleanSessionDone(s) =>
            /\ Len(Reports(s)) = 1
            /\ Reports(s)[1].receiver = "Orchestrator"
            /\ Cardinality({i \in 1..Len(log) :
                   /\ log[i].msg = Reports(s)[1]
                   /\ log[i].outcome = "handled"
                   /\ Lookup(agents, log[i].msg.receiver) = "Orchestrator"}) = 1

\* A session with two scenarios has run to its end without a failure.
C4_Witness ==
    /\ CleanSessionDone("s1")
    /\ Len(SelectSeq(emitted, LAMBDA m : m.type = "SCENARIO")) = 2
    /\ queue = <<>>

\* C21: every send call returns having appended its envelope: the queue is
\* the queue before the call followed by the envelope, and the registry is
\* as it was; so for a call by the owner of the bus, so for the calls of a
\* handler (whose own envelope run has popped), for any receiver.
C21_SendOnlyAppends ==
    [][Len(emitted') > Len(emitted)
       => (/\ queue' = (IF pc = "idle" THEN queue ELSE Tail(queue))
                           \o SubSeq(emitted', Len(emitted) + 1, Len(emitted'))
           /\ SubSeq(emitted', 1, Len(emitted)) = emitted
           /\ agents' = agents
           /\ pc' = pc)]_vars

\* An envelope for an unregistered receiver was sent behind another, and
\* the envelope a handler sent during run is in the queue behind it.
C21_Witness ==
    /\ pc = "run"
    /\ Len(queue) >= 2
    /\ queue[Len(queue) - 1].receiver \notin DOMAIN agents
    /\ queue[Len(queue)].sender = "SimulationAgent"

\* The agent bound to a name when the i-th pop was made: the one of the last
\* register_agent call for the name before that pop, and without such a
\* call the one build_system registered.
BoundAt(name, i) ==
    LET rs == {k \in 1..Len(registered) :
                  registered[k].name = name /\ registered[k].at < i}
    IN  IF rs = {}
        THEN IF name \in AgentNames THEN name ELSE "None"
        ELSE registered[CHOOSE k \in rs : \A j \in rs : j <= k].agent

\* C22: register_agent on a bound name overwrites the binding and leaves the
\* other bindings alone, and an envelope for the name dispatched after that
\* is handled by the agent registered last (a PolicyAgent ignores the
\* SCENARIO a SimulationAgent answers with a SIM_RESULT).
C22_LastRegistrationWins ==
    /\ \A n \in AgentNames :
          agents[n] = BoundAt(n, Len(log) + 1)
    /\ \A i \in 1..Len(log) :
          (/\ log[i].outcome = "handled"
           /\ log[i].msg.receiver \in AgentNames
           /\ \E k \in 1..Len(registered) :
                 /\ registered[k].name = log[i].msg.receiver
                 /\ registered[k].at < i)
          => /\ log[i].agent = BoundAt(log[i].msg.receiver, i)
             /\ log[i].agent = "PolicyAgent" => log[i].sent = <<>>
             /\ (log[i].agent = "SimulationAgent"
                     /\ log[i].msg.type = "SCENARIO")
                    => /\ Len(log[i].sent) = 1
                       /\ log[i].sent[1].type = "SIM_RESULT"

\* The name SimulationAgent was registered twice after build_system, last
\* for a PolicyAgent, and a SCENARIO for it was then handed to that agent.
C22_Witness ==
    /\ Len(registered) = 2
    /\ registered[1].name = "SimulationAgent"
    /\ registered[2] = [registered[1] EXCEPT !.agent = "PolicyAgent"]
    /\ registered[1].agent = "SimulationAgent"
    /\ \E i \in 1..Len(log) :
          /\ log[i].msg.receiver = "SimulationAgent"
          /\ log[i].outcome = "handled"
          /\ log[i].agent = "PolicyAgent"

\* C23: the receiver is resolved when the envelope is popped: the envelope
\* is dropped when the name is unbound then, and handed to the agent bound
\* to the name then, whatever the registry held when the envelope was sent.
C23_ResolvedAtDispatch ==
    \A i \in 1..Len(log) :
        log[i].outcome # "recycled" =>
            IF BoundAt(log[i].msg.receiver, i) = "None"
            THEN log[i].outcome = "unknown"
            ELSE /\ log[i].outcome \in {"handled", "failed"}
                 /\ log[i].agent = BoundAt(log[i].msg.receiver, i)

\* An envelope sent to a name that was unbound was handed to an agent
\* registered under the name after the send, and another sent to a bound
\* name was handed to an agent registered under it after the send.
C23_Witness ==
    \E i, j \in 1..Len(log) : \E k, l \in 1..Len(registered) :
        /\ log[i].msg.receiver = "NoSuchAgent"
        /\ registered[k].name = "NoSuchAgent"
        /\ \A m \in 1..Len(registered) :
              registered[m].name = "NoSuchAgent" => m >= k
        /\ log[i].msg.id <= registered[k].sent
        /\ log[i].outcome = "handled"
        /\ log[j].msg.receiver = "SimulationAgent"
        /\ registered[l].name = "SimulationAgent"
        /\ registered[l].agent = "PolicyAgent"
        /\ log[j].msg.id <= registered[l].sent
        /\ log[j].agent = "PolicyAgent"

\* The pops that ended an envelope's life: it was handled, its handler
\* failed, or it was dropped for its unknown receiver.
Processed ==
    {i \in 1..Len(log) : log[i].outcome # "recycled"}

C25_OtherTypesIgnored ==
    [][(/\ Pops
        /\ log'[Len(log')].agent # "None"
        /\ Head(queue).type \notin Handles(log'[Len(log')].agent))
       => (/\ log'[Len(log')].outcome = "handled"
           /\ emitted' = emitted
           /\ sessions' = sessions
           /\ num_scenarios' = num_scenarios
           /\ agents' = agents
           /\ queue' = Tail(queue))]_vars

\* The EvaluationAgent holds a record with a result and a count not yet
\* reached, and the last pop handed it an envelope of another type.
C25_Witness ==
    /\ "s1" \in DOMAIN sessions
    /\ sessions["s1"].expected = MaxK
    /\ Len(sessions["s1"].results) = 1
    /\ log # <<>>
    /\ log[Len(log)].agent = "EvaluationAgent"
    /\ log[Len(log)].msg.type = "START"

\* The last pop before the i-th at which the barrier of session s fired, or 0.
LastFire(s, i) ==
    LET fs == {j \in Fired(s) : j < i}
    IN  IF fs = {} THEN 0 ELSE CHOOSE j \in fs : \A k \in fs : k <= j

\* The envelopes of a type delivered to the EvaluationAgent for session s
\* between the pops from and to, the ends included.
OwnDeliveries(s, type, from, to) ==
    SelectSeq([j \in 1..(to - from + 1) |-> log[from + j - 1]],
              LAMBDA e : IsEvalDelivery(e, s) /\ e.msg.type = type)

\* The results of session s's own envelopes up to the i-th pop since its
\* barrier last fired.
OwnResults(s, i) ==
    LET es == OwnDeliveries(s, "SIM_RESULT", LastFire(s, i) + 1, i)
    IN  [k \in 1..Len(es) |-> es[k].msg.payload]

\* The count of session s's own last SCENARIO_COUNT before the i-th pop
\* since its barrier last fired.
OwnExpected(s, i) ==
    LET es == OwnDeliveries(s, "SCENARIO_COUNT", LastFire(s, i) + 1, i - 1)
    IN  IF es = <<>> THEN None ELSE es[Len(es)].msg.payload.count

\* C26: with the envelopes of several sessions interleaved, a SIM_RESULT of a
\* session fires the session's barrier exactly when the session's own count
\* is reached by the session's own results, and the summary holds those
\* results and no other.
C26_SessionsKeptApart ==
    \A i \in 1..Len(log) :
        LET s == log[i].msg.session_id
            own == OwnResults(s, i)
            ranked == log[i].sent[1].payload.ranked_scenarios
        IN  (IsEvalDelivery(log[i], s) /\ log[i].msg.type = "SIM_RESULT")
            => /\ log[i].sent # <<>>
                    <=> (/\ OwnExpected(s, i) # None
                         /\ Len(own) >= OwnExpected(s, i)
                         /\ \A k \in 1..Len(own) : own[k].ok)
               /\ log[i].sent # <<>>
                    => /\ log[i].sent[1].session_id = s
                       /\ Len(ranked) = Len(own)
                       /\ \A x \in Range(own) :
                             Cardinality({k \in 1..Len(own) : own[k] = x})
                                 = Cardinality({k \in 1..Len(ranked) :
                                                   ranked[k] = x})

\* The barrier of a session fired on its one result while the
\* EvaluationAgent held a result of another session, delivered between the
\* first session's count and result.
C26_Witness ==
    /\ Len(log) = 3
    /\ log[3].sent # <<>>
    /\ log[1].msg.type = "SCENARIO_COUNT"
    /\ log[2].msg.type = "SIM_RESULT"
    /\ log[2].msg.session_id # log[3].msg.session_id
    /\ log[1].msg.session_id = log[3].msg.session_id
    /\ log[2].msg.session_id \in DOMAIN sessions

\* A handler of the session's pipeline before REPORT_READY has raised.
HandlerFailed ==
    \E i \in 1..Len(log) :
        log[i].outcome = "failed" /\ log[i].msg.type # "REPORT_READY"

\* C27: when the handler of a pipeline envelope before REPORT_READY raises,
\* no REPORT_READY is sent for the session, and run(session_id=s) returns,
\* with the queue empty.
C27_FailureShowsAsNoReport ==
    /\ [](HandlerFailed =>
             /\ \A s \in Sessions : Reports(s) = <<>>
             /\ pc \in {"idle", "run"}
             /\ pc = "idle" => queue = <<>>)
    /\ (HandlerFailed ~> pc = "idle")

\* The session's run has returned after the handler of the second of two
\* SIM_RESULT envelopes raised, the other handlers having done their work.
C27_Witness ==
    /\ pc = "idle"
    /\ queue = <<>>
    /\ Cardinality({i \in 1..Len(log) : log[i].outcome = "failed"}) = 1
    /\ \E i \in 1..Len(log) :
          /\ log[i].outcome = "failed"
          /\ log[i].msg.type = "SIM_RESULT"
          /\ \E j \in 1..(i - 1) :
                log[j].msg.type = "SIM_RESULT" /\ log[j].outcome = "handled"

\* C28: while a handler runs nothing is popped and no other handler is
\* entered; an envelope is popped only when no handler runs, one at a time;
\* and the envelopes a handler sends are popped after it has returned.
C28_RunToCompletion ==
    /\ [][pc = "handler" => (Len(log') = Len(log)
                             /\ pc' \in {"handler", "run"})]_vars
    /\ [][Len(log') # Len(log) => (/\ pc = "run"
                                   /\ Len(log') = Len(log) + 1
                                   /\ pc' = "handler")]_vars
    /\ [](\A j \in 1..Len(log) :
             /\ \A k \in 1..Len(queue) : queue[k].id # log[j].msg.id
             /\ log[j].msg.sender # "User"
                  => \E i \in 1..(j - 1) :
                        /\ \E k \in 1..Len(log[i].sent) :
                              log[i].sent[k] = log[j].msg
                        /\ log[j].msg.id <= Len(emitted))

\* The ScenarioAgent's handler has sent its count and the first of its two
\* scenarios and has not returned; both envelopes wait in the queue.
C28_Witness ==
    /\ pc = "handler"
    /\ Current.agent = "ScenarioAgent"
    /\ Len(Current.sent) = 3
    /\ SentSoFar = 2
    /\ Len(queue) = 2

\* The run of a session generated K scenarios and no handler has raised.
CleanWith(K) ==
    /\ runs = 1
    /\ \A i \in 1..Len(log) : log[i].outcome = "handled"
    /\ \E i \in 1..Len(log) : Generated(i, K)

\* The REPORT_READY envelope has been handed to the Orchestrator.
ReportDelivered ==
    \E i \in 1..Len(log) :
        /\ log[i].msg.type = "REPORT_READY"
        /\ log[i].agent = "Orchestrator"

\* C29: from a queue holding the START envelope of a session, with K >= 1
\* scenarios generated and no handler raising, run(session_id=s) returns,
\* with the queue empty after exactly 2K+7 dispatches when it has no lower
\* step limit, and without REPORT_READY delivered when it has.
C29_DispatchBudget ==
    /\ [](\A K \in 1..MaxK :
             (CleanWith(K) /\ pc = "idle"
                  /\ (max_steps = None \/ max_steps >= 2 * K + 7))
             => /\ queue = <<>>
                /\ steps = 2 * K + 7
                /\ Len(log) = 2 * K + 7
                /\ ReportDelivered)
    /\ [](\A K \in 1..MaxK :
             (CleanWith(K) /\ max_steps # None /\ max_steps < 2 * K + 7)
             => ~ReportDelivered)
    /\ (runs = 1 ~> pc = "idle")

\* A session with two scenarios has run to its end under a step limit of
\* exactly 2K+7, the last step handing REPORT_READY to the Orchestrator.
C29_Witness ==
    /\ CleanWith(2)
    /\ pc = "idle"
    /\ max_steps = 2 * 2 + 7
    /\ steps = max_steps
    /\ queue = <<>>
    /\ log[Len(log)].msg.type = "REPORT_READY"

\* C30: every envelope a handler sends carries the session_id of the
\* envelope it was handling, so every envelope of a session's pipeline
\* carries the session_id of its START envelope.
C30_SessionIdCarried ==
    /\ \A i \in 1..Len(log) : \A k \in 1..Len(log[i].sent) :
          log[i].sent[k].session_id = log[i].msg.session_id
    /\ \A k \in 1..Len(emitted) :
          emitted[k].session_id = emitted[1].session_id

\* The pipeline of session s2 has run to its end with two scenarios: every
\* agent has sent its envelopes.
C30_Witness ==
    /\ CleanSessionDone("s2")
    /\ emitted[1].type = "START"
    /\ Len(emitted) = 2 * 2 + 7
    /\ emitted[Len(emitted)].type = "REPORT_READY"

\* The step pops an envelope of a type that run hands to the EvaluationAgent,
\* whose handler returns without raising.
EvalHandles(type) ==
    /\ Pops
    /\ log'[Len(log')].outcome = "handled"
    /\ log'[Len(log')].agent = "EvaluationAgent"
    /\ Head(queue).type = type

\* C31: handling a SCENARIO_COUNT sends nothing and sets the `expected` of
\* the session's record, creating the record when there is none: the results
\* held before are kept, a count held before is overwritten, and the records
\* of the other sessions are as they were; the results kept count toward the
\* threshold of the next SIM_RESULT.
C31_CountSetsExpectedOnly ==
    /\ [][EvalHandles("SCENARIO_COUNT")
          => LET s == Head(queue).session_id
             IN  /\ emitted' = emitted
                 /\ queue' = Tail(queue)
                 /\ DOMAIN sessions' = DOMAIN sessions \cup {s}
                 /\ sessions'[s].expected = Head(queue).payload.count
                 /\ sessions'[s].results =
                        (IF s \in DOMAIN sessions THEN sessions[s].results
                         ELSE <<>>)
                 /\ \A t \in DOMAIN sessions \ {s} :
                        sessions'[t] = sessions[t]]_vars
    /\ [][(/\ EvalHandles("SIM_RESULT")
           /\ Head(queue).session_id \in DOMAIN sessions
           /\ sessions[Head(queue).session_id].expected # None
           /\ Len(sessions[Head(queue).session_id].results) + 1
                  >= sessions[Head(queue).session_id].expected)
          => LET e == log'[Len(log')]
             IN  /\ Len(e.sent) = 1
                 /\ e.sent[1].payload.num_scenarios
                        = Len(sessions[Head(queue).session_id].results) + 1]_vars

\* The last pop handed the EvaluationAgent a second, different count for a
\* session of which it holds a result.
C31_Witness ==
    /\ log # <<>>
    /\ LET e == log[Len(log)]
           s == e.msg.session_id
       IN  /\ IsEvalDelivery(e, s)
           /\ e.outcome = "handled"
           /\ e.msg.type = "SCENARIO_COUNT"
           /\ ExpectedAt(s, Len(log) - 1) \notin {None, e.msg.payload.count}
           /\ s \in DOMAIN sessions
           /\ sessions[s].expected = e.msg.payload.count
           /\ Len(sessions[s].results) = 1

\* The number of the envelopes in a sequence that are the k-th ever sent.
CountOf(q, k) ==
    Cardinality({j \in 1..Len(q) : q[j].id = k})

\* C32: an envelope that was sent and not handed to a handler (or dropped at
\* the lookup) is in the queue, once; a run that returns, at its step limit
\* too, leaves the queue as it is; and the run call that follows has
\* dispatched every envelope the step limit left there when it returns, which
\* it does after at most 2K+7 iterations.
C32_StepLimitLosesNothing ==
    /\ [](\A k \in 1..Len(emitted) :
             Cardinality({i \in Processed : log[i].msg.id = k})
                 + CountOf(queue, k) = 1)
    /\ [][(pc = "run" /\ pc' = "idle") => queue' = queue]_vars
    /\ [](\A j \in 1..Len(run0.queue) :
             /\ run0.queue[j] = emitted[run0.queue[j].id]
             /\ (pc = "idle" /\ runs = 2)
                  => \E i \in Processed :
                        log[i].run = 2 /\ log[i].msg = run0.queue[j])
    /\ [](pc = "run" => steps <= 2 * num_scenarios + 7)

\* A run stopped by its step limit behind the ScenarioAgent left the count
\* and two scenarios in the queue, and the run call that followed has gone
\* through them and sent the report.
C32_Witness ==
    /\ pc = "idle"
    /\ runs = 2
    /\ Len(run0.queue) = 3
    /\ run0.queue[1].type = "SCENARIO_COUNT"
    /\ queue = <<>>
    /\ \E s \in Sessions : Len(Reports(s)) = 1

\* C33: _evaluate_session is never called on an empty list, whatever counts
\* (zero included) and results are delivered: it is called by the handler of
\* a SIM_RESULT only, on a list that holds that result; so a handler of the
\* EvaluationAgent that raises does so on an entry of the list, and a summary
\* has a best scenario, the first of at least one ranked result.
C33_AggregatesNonEmptyList ==
    \A i \in 1..Len(log) :
        LET s == log[i].msg.session_id
            own == OwnResults(s, i)
        IN  IsEvalDelivery(log[i], s) =>
                /\ log[i].outcome = "failed" =>
                       /\ log[i].msg.type = "SIM_RESULT"
                       /\ own # <<>>
                       /\ \E k \in 1..Len(own) : ~own[k].ok
                /\ log[i].sent # <<>> =>
                       /\ log[i].msg.type = "SIM_RESULT"
                       /\ own # <<>>
                       /\ log[i].sent[1].payload.num_scenarios = Len(own)
                       /\ log[i].sent[1].payload.best_scenario
                              = log[i].sent[1].payload.ranked_scenarios[1]

\* A count of zero was delivered for a session without results, sending
\* nothing, and the first result of the session then fired the barrier.
C33_Witness ==
    /\ Len(log) >= 2
    /\ LET e == log[Len(log)]
           c == log[Len(log) - 1]
       IN  /\ IsEvalDelivery(c, e.msg.session_id)
           /\ c.msg.type = "SCENARIO_COUNT"
           /\ c.msg.payload.count = 0
           /\ c.outcome = "handled"
           /\ OwnResults(e.msg.session_id, Len(log) - 1) = <<>>
           /\ e.msg.type = "SIM_RESULT"
           /\ Len(e.sent) = 1
           /\ e.sent[1].payload.num_scenarios = 1

\* The step pops a SIM_RESULT that run hands to the EvaluationAgent while the
\* session's record holds a count that the results, with this one, reach.
ThresholdReached ==
    /\ Pops
    /\ log'[Len(log')].agent = "EvaluationAgent"
    /\ Head(queue).type = "SIM_RESULT"
    /\ Head(queue).session_id \in DOMAIN sessions
    /\ sessions[Head(queue).session_id].expected # None
    /\ Len(sessions[Head(queue).session_id].results) + 1
           >= sessions[Head(queue).session_id].expected

\* C34: when the aggregation raises at the threshold, nothing is sent, run
\* goes on, and the session's record stays, with its count and with the
\* result just appended behind those held; and every SIM_RESULT at the
\* threshold aggregates all the results accumulated, so the one that follows
\* a failure does so again, over the list that failed and its own result.
C34_FailedAggregationKeepsRecord ==
    /\ [][(ThresholdReached /\ log'[Len(log')].outcome = "failed")
          => LET s == Head(queue).session_id
             IN  /\ emitted' = emitted
                 /\ pc' = "run"
                 /\ DOMAIN sessions' = DOMAIN sessions
                 /\ sessions'[s].expected = sessions[s].expected
                 /\ sessions'[s].results
                        = Append(sessions[s].results, Head(queue).payload)
                 /\ \A t \in DOMAIN sessions \ {s} :
                        sessions'[t] = sessions[t]]_vars
    /\ [][ThresholdReached
          => LET s == Head(queue).session_id
                 all == Append(sessions[s].results, Head(queue).payload)
                 e == log'[Len(log')]
             IN  IF \E k \in 1..Len(all) : ~all[k].ok
                 THEN e.outcome = "failed" /\ e.sent = <<>>
                 ELSE /\ e.outcome = "handled"
                      /\ Len(e.sent) = 1
                      /\ e.sent[1].payload.num_scenarios = Len(all)
                      /\ s \notin DOMAIN sessions']_vars

\* The aggregation has failed on a result without its fields and again on
\* the well-formed result that followed; the record holds both.
C34_Witness ==
    /\ Len(log) >= 3
    /\ LET e == log[Len(log)]
           f == log[Len(log) - 1]
           s == e.msg.session_id
       IN  /\ IsEvalDelivery(e, s) /\ IsEvalDelivery(f, s)
           /\ f.msg.type = "SIM_RESULT" /\ f.outcome = "failed"
           /\ ~f.msg.payload.ok
           /\ e.msg.type = "SIM_RESULT" /\ e.outcome = "failed"
           /\ e.msg.payload.ok
           /\ s \in DOMAIN sessions
           /\ sessions[s].expected = 1
           /\ sessions[s].results = <<f.msg.payload, e.msg.payload>>
           /\ Summaries(s) = <<>>

\* C35: when the run of one session that generated K >= 1 scenarios returns
\* without a handler having raised, the EvaluationAgent holds no record of
\* the session: its session table is empty.
C35_NoRecordLeft ==
    \A s \in Sessions :
        CleanSessionDone(s) =>
            /\ s \notin DOMAIN sessions
            /\ DOMAIN sessions = {}

\* The run of a session has returned without a failure after the
\* EvaluationAgent took a count of two and two results and sent its summary.
C35_Witness ==
    /\ CleanSessionDone("s1")
    /\ Len(EvalDeliveries("s1", "SCENARIO_COUNT", Len(log))) = 1
    /\ Len(EvalDeliveries("s1", "SIM_RESULT", Len(log))) = 2
    /\ Len(Summaries("s1")) = 1
    /\ SummaryOf("s1").num_scenarios = 2

====
